---- MODULE Spec2Model ----
(***************************************************************************)
(* A model of the Platform.sh configuration reader, src/src/config.py.     *)
(*                                                                         *)
(* The state is the mapping handed to Config(...), the four decoded        *)
(* tables of the instance, and the outcome of the last call.  Every method *)
(* of the class is an operator computed as the Python computes it, return  *)
(* value or raised exception included, and an action that records it.      *)
(***************************************************************************)
EXTENDS Integers, Sequences, FiniteSets, TLC

VARIABLES
    environmentVariables,  \* the mapping the instance reads (config.py:100)
    routesDef,             \* config.py:85, 106
    relationshipsDef,      \* config.py:86, 109
    variablesDef,          \* config.py:87, 112
    applicationDef,        \* config.py:88, 115
    pc,                    \* "new": not yet constructed, "ready", "failed"
    call,                  \* the last call made and its arguments
    result                 \* what that call returned or raised

vars == <<environmentVariables, routesDef, relationshipsDef, variablesDef,
          applicationDef, pc, call, result>>

tables == <<routesDef, relationshipsDef, variablesDef, applicationDef>>

-----------------------------------------------------------------------------
(* Bounds of the model.                                                    *)

\* the mapping holds at most this many variables besides the phase variables
MaxEnvVars == 2
\* a route table holds at most this many routes
MaxRoutes == 2
\* the "database" relationship holds at most this many credential sets
MaxCreds == 2

-----------------------------------------------------------------------------
(* Python values.  Every value carries its type in t, so that values of    *)
(* different types are different and never confused.                       *)

None == [t |-> "None"]
Str(s) == [t |-> "str", v |-> s]
Bool(b) == [t |-> "bool", v |-> b]
\* a list: v is the sequence of its items
List(s) == [t |-> "list", v |-> s]
\* a dict keeps insertion order: v is the sequence of its <<key, value>> pairs
Dict(s) == [t |-> "dict", v |-> s]
\* a bytes object that is meant to be base64 text: b64 says whether it is
\* valid base64, json whether the bytes it stands for are valid JSON text,
\* doc the JSON document those bytes spell (None when they spell none)
Bytes(b64, json, doc) == [t |-> "bytes", b64 |-> b64, json |-> json, doc |-> doc]

\* the outcome of a call
Return(v) == [ok |-> TRUE, val |-> v]
Raise(e, m) == [ok |-> FALSE, exc |-> e, msg |-> m]

\* bool(x) as Python computes it for the values of the model
Truthy(x) ==
    CASE x.t = "None" -> FALSE
      [] x.t = "str" -> x.v # ""
      [] x.t = "bool" -> x.v
      [] x.t = "list" -> x.v # <<>>
      [] x.t = "dict" -> x.v # <<>>
      [] OTHER -> TRUE

DictKeys(d) == {d.v[i][1] : i \in DOMAIN d.v}
DictGet(d, k) == d.v[CHOOSE i \in DOMAIN d.v : d.v[i][1] = k][2]
\* d[k] = x: replaces the value in place, or appends a new key
DictSet(d, k, x) ==
    IF k \in DictKeys(d)
    THEN Dict([i \in DOMAIN d.v |-> IF d.v[i][1] = k THEN <<k, x>> ELSE d.v[i]])
    ELSE Dict(Append(d.v, <<k, x>>))

\* l[i] on a list, negative indexes counting from the end
ListGetItem(l, i) ==
    IF i >= 0 /\ i < Len(l.v) THEN Return(l.v[i + 1])
    ELSE IF i < 0 /\ -i <= Len(l.v) THEN Return(l.v[Len(l.v) + i + 1])
    ELSE Raise("IndexError", "list index out of range")

Min(S) == CHOOSE x \in S : \A y \in S : x <= y

-----------------------------------------------------------------------------
(* The class attributes.                                                   *)

directVariables ==
    [project |-> "PROJECT", appDir |-> "APP_DIR",
     applicationName |-> "APPLICATION_NAME", treeID |-> "TREE_ID",
     entropy |-> "PROJECT_ENTROPY"]

directVariablesRuntime ==
    [branch |-> "BRANCH", environment |-> "ENVIRONMENT",
     documentRoot |-> "DOCUMENT_ROOT", smtpHost |-> "SMTP_HOST"]

\* routesDef = [], relationshipsDef = [], variablesDef = [], applicationDef = []
ClassDefault == List(<<>>)

\* the env_prefix argument, at its default
envPrefix == "PLATFORM_"

\* str.upper() on the names the class reads
upper(name) ==
    CASE name = "mode" -> "MODE"
      [] name = "branch" -> "BRANCH"
      [] name = "environment" -> "ENVIRONMENT"
      [] OTHER -> name

-----------------------------------------------------------------------------
(* The methods that read the environment.  A name of the mapping is the    *)
(* pair <<prefix, rest>> standing for the string prefix + rest.            *)

get_value(name) ==
    LET check_name == <<envPrefix, upper(name)>>
    IN  IF check_name \in DOMAIN environmentVariables
        THEN environmentVariables[check_name]
        ELSE None

is_valid_platform_empty_ok == get_value("APPLICATION_NAME") # None
is_valid_platform == Truthy(get_value("APPLICATION_NAME"))

in_build_reads_branch == is_valid_platform /\ ~Truthy(get_value("BRANCH"))
in_build == is_valid_platform /\ ~Truthy(get_value("ENVIRONMENT"))

on_enterprise == is_valid_platform /\ get_value("MODE") = Str("enterprise")

on_production_always_master ==
    IF ~is_valid_platform /\ ~in_build THEN FALSE
    ELSE get_value("BRANCH") = Str("master")
on_production ==
    IF ~is_valid_platform /\ ~in_build THEN FALSE
    ELSE LET prod_branch == IF on_enterprise THEN "production" ELSE "master"
         IN  get_value("BRANCH") = Str(prod_branch)

-----------------------------------------------------------------------------
(* decode: base64.decodebytes, then json.loads                             *)

\* base64.decodebytes takes bytes, not str, and raises binascii.Error on
\* text that is not base64
b64_decodebytes(variable) ==
    IF variable.t # "bytes"
    THEN Raise("TypeError", "expected bytes-like object, not str")
    ELSE IF variable.b64 THEN Return(variable)
    ELSE Raise("binascii.Error", "Incorrect padding")

\* json.loads raises JSONDecodeError on bytes that are not JSON
json_loads(bytes) ==
    IF bytes.json THEN Return(bytes.doc)
    ELSE Raise("JSONDecodeError", "Expecting property name")

\* only JSONDecodeError is caught: the handler prints and falls off the end
\* of the function, which returns None
decode(variable) ==
    LET raw == b64_decodebytes(variable)
    IN  IF ~raw.ok THEN raw
        ELSE LET doc == json_loads(raw.val)
             IN  IF ~doc.ok /\ doc.exc = "JSONDecodeError" THEN Return(None)
                 ELSE doc

\* ConfigTest.encode: base64.b64encode(json.dumps(value).encode('utf-8'))
encode(value) == Bytes(TRUE, TRUE, value)

-----------------------------------------------------------------------------
(* The methods that read the decoded tables.                               *)

credentials(relationship, index) ==
    IF ~is_valid_platform
    THEN Raise("RuntimeError", "not running on Platform.sh")
    ELSE IF in_build
    THEN Raise("RuntimeError", "not available during the build phase")
    ELSE IF relationshipsDef.t # "dict"
    THEN Raise("AttributeError", "object has no attribute 'keys'")
    ELSE IF relationship \notin DictKeys(relationshipsDef)
    THEN Raise("ValueError", "No relationship defined")
    ELSE IF index \notin 0 .. (Len(relationshipsDef.v) - 1)
    THEN Raise("ValueError", "No index defined for relationship")
    ELSE ListGetItem(DictGet(relationshipsDef, relationship), index)

variable(name, default) ==
    IF ~is_valid_platform THEN Return(default)
    ELSE IF variablesDef.t # "dict"
    THEN Raise("AttributeError", "object has no attribute 'keys'")
    ELSE IF name \in DictKeys(variablesDef)
    THEN Return(DictGet(variablesDef, name))
    ELSE Return(default)

variables ==
    IF ~is_valid_platform
    THEN Raise("RuntimeError", "not running on Platform.sh")
    ELSE Return(variablesDef)

routes ==
    IF ~is_valid_platform
    THEN Raise("RuntimeError", "not running on Platform.sh")
    ELSE IF in_build
    THEN Raise("RuntimeError", "not available during the build phase")
    ELSE Return(routesDef)

\* the positions of the route table at which the loop of get_route stops:
\* the route has the id asked for, or has no 'id' to compare
get_route_stops(table, route_id) ==
    {i \in DOMAIN table.v :
        \/ "id" \notin DictKeys(table.v[i][2])
        \/ DictGet(table.v[i][2], "id") = route_id}

get_route(route_id) ==
    LET self_routes == routes
    IN  IF ~self_routes.ok THEN self_routes
        ELSE IF self_routes.val.t # "dict"
        THEN Raise("AttributeError", "object has no attribute 'items'")
        ELSE LET stops == get_route_stops(self_routes.val, route_id)
             IN  IF stops = {}
                 THEN Raise("ValueError", "No such route id found")
                 ELSE LET url == self_routes.val.v[Min(stops)][1]
                          route == self_routes.val.v[Min(stops)][2]
                      IN  IF "id" \notin DictKeys(route)
                          THEN Raise("KeyError", "id")
                          ELSE Return(DictSet(route, "url", Str(url)))

\* route['url'] = url writes into the route that the table holds
get_route_routesDef(route_id) ==
    LET found == get_route(route_id)
    IN  IF ~found.ok THEN routesDef
        ELSE LET at == Min(get_route_stops(routesDef, route_id))
             IN  Dict([i \in DOMAIN routesDef.v |->
                         IF i = at THEN <<routesDef.v[i][1], found.val>>
                         ELSE routesDef.v[i]])

application ==
    IF ~is_valid_platform
    THEN Raise("RuntimeError", "not running on Platform.sh")
    ELSE Return(applicationDef)

\* the attribute read config.<config_property>, for a name that is no
\* attribute or method of the class
getattr(config_property) ==
    IF ~is_valid_platform
    THEN Raise("RuntimeError", "not running on Platform.sh")
    ELSE LET is_build_var == config_property \in DOMAIN directVariables
             is_runtime_var == config_property \in DOMAIN directVariablesRuntime
         IN  IF in_build /\ is_runtime_var
             THEN Raise("ValueError", "not available during build time")
             ELSE IF is_build_var
             THEN Return(get_value(directVariables[config_property]))
             ELSE IF is_runtime_var
             THEN Return(get_value(directVariablesRuntime[config_property]))
             ELSE Raise("ValueError", "No such variable defined")

isset(config_property) ==
    IF ~is_valid_platform THEN FALSE
    ELSE LET is_build_var == config_property \in DOMAIN directVariables
             is_runtime_var == config_property \in DOMAIN directVariablesRuntime
         IN  IF in_build THEN is_build_var
             ELSE IF is_build_var \/ is_runtime_var THEN TRUE
             ELSE FALSE

-----------------------------------------------------------------------------
(* The inputs: the mappings a caller passes to Config(...), and the        *)
(* arguments of the calls.                                                 *)

UrlNames == <<"https://www.example.com/", "https://example.com/",
              "https://api.example.com/", "https://cdn.example.com/">>
RouteIds == {"main", "other"}
DbHosts == <<"db0.internal", "db1.internal", "db2.internal", "db3.internal">>

Route(id) == Dict(<< <<"id", Str(id)>>, <<"type", Str("upstream")>> >>)

\* the route tables: up to MaxRoutes routes, two of which may share an id
RouteTables ==
    {Dict([i \in DOMAIN ids |-> <<UrlNames[i], Route(ids[i])>>]) :
        ids \in UNION {[1 .. n -> RouteIds] : n \in 0 .. MaxRoutes}}

DbCredential(i) ==
    Dict(<< <<"scheme", Str("mysql")>>, <<"host", Str(DbHosts[i])>> >>)
RedisCredential ==
    Dict(<< <<"scheme", Str("redis")>>, <<"host", Str("redis.internal")>> >>)

\* the relationship tables: "database" missing or with 0 .. MaxCreds
\* credential sets, "redis" missing or with one
RelationshipTables ==
    {Dict(db \o rd) :
        db \in {<<>>} \cup {<< <<"database", List([i \in 1 .. n |-> DbCredential(i)])>> >> :
                               n \in 0 .. MaxCreds},
        rd \in {<<>>, << <<"redis", List(<<RedisCredential>>)>> >>}}

VariableTables ==
    {Dict(<<>>), Dict(<< <<"somevar", Str("someval")>> >>)}

ApplicationDefs == {Dict(<< <<"type", Str("python:3.7")>> >>)}

\* bytes that are not base64, and base64 of text that is not JSON
NotBase64 == Bytes(FALSE, FALSE, None)
NotJson == Bytes(TRUE, FALSE, None)

\* base64 of JSON held as str, as os.environ holds it
Base64Str == Str("e30=")

Encoded(docs) == {encode(d) : d \in docs} \cup {NotBase64, NotJson, Base64Str}

ValuesFor(key) ==
    CASE key = <<"FAKE_", "APPLICATION_NAME">> -> {Str("test-application")}
      [] key[2] = "APPLICATION_NAME" -> {Str(""), Str("app")}
      [] key[2] = "ENVIRONMENT" -> {Str("feature-x-hgi456")}
      [] key[2] = "MODE" -> {Str("enterprise"), Str("standard")}
      [] key[2] = "BRANCH" -> {Str("master"), Str("production"), Str("feature-x")}
      [] key[2] = "PROJECT" -> {Str("test-project")}
      [] key[2] = "APP_DIR" -> {Str("/app")}
      [] key[2] = "TREE_ID" -> {Str("abc123")}
      [] key[2] = "PROJECT_ENTROPY" -> {Str("def789")}
      [] key[2] = "DOCUMENT_ROOT" -> {Str("/app/web")}
      [] key[2] = "SMTP_HOST" -> {Str("1.2.3.4")}
      [] key[2] = "ROUTES" -> Encoded(RouteTables)
      [] key[2] = "RELATIONSHIPS" -> Encoded(RelationshipTables)
      [] key[2] = "VARIABLES" -> Encoded(VariableTables)
      [] key[2] = "APPLICATION" -> Encoded(ApplicationDefs)

\* the variables that decide the phase and the production branch
PhaseNames == <<"APPLICATION_NAME", "ENVIRONMENT">>
ModeNames == <<"MODE", "BRANCH">>
\* the variables behind the properties, each with the one value of the fixture
ScalarNames == <<"PROJECT", "APP_DIR", "TREE_ID", "PROJECT_ENTROPY",
                 "DOCUMENT_ROOT", "SMTP_HOST">>
\* the variables that hold base64 of JSON
StructuredNames == <<"ROUTES", "RELATIONSHIPS", "VARIABLES", "APPLICATION">>

Prefixed(names) == [i \in DOMAIN names |-> <<envPrefix, names[i]>>]

EmptyEnv == [k \in {} |-> None]
WithVar(env, key, value) ==
    [k \in DOMAIN env \cup {key} |-> IF k = key THEN value ELSE env[k]]

\* the mappings that add to env at most n of the variables of keys, a
\* sequence of names
RECURSIVE Fill(_, _, _)
Fill(env, keys, n) ==
    IF keys = <<>> \/ n = 0 THEN {env}
    ELSE Fill(env, Tail(keys), n)
         \cup UNION {Fill(WithVar(env, Head(keys), value), Tail(keys), n - 1) :
                        value \in ValuesFor(Head(keys))}

\* the mappings a caller passes: any setting of the phase variables, and
\* besides them at most MaxEnvVars variables, taken either among the mode,
\* branch and property variables (and one of another prefix) or among the
\* structured ones
Snapshots ==
    LET phases == Fill(EmptyEnv, Prefixed(PhaseNames), Len(PhaseNames))
        modes == UNION {Fill(env, Prefixed(ModeNames), Len(ModeNames)) :
                          env \in phases}
    IN  UNION {Fill(env, Prefixed(ScalarNames) \o << <<"FAKE_", "APPLICATION_NAME">> >>,
                    MaxEnvVars) : env \in modes}
        \cup UNION {Fill(env, Prefixed(StructuredNames), MaxEnvVars) : env \in phases}

RelationshipNames == {"database", "redis", "does-not-exist"}
Indexes == -1 .. MaxCreds
RouteIdArgs == {Str("main"), Str("other"), Str("missing")}
VariableNames == {"somevar", "missing"}
Defaults == {None, Str("default-val")}
PropertyNames ==
    DOMAIN directVariables \cup DOMAIN directVariablesRuntime
        \cup {"treeId", "missing"}

-----------------------------------------------------------------------------
(* The state machine.                                                      *)

Init ==
    /\ environmentVariables \in Snapshots
    /\ routesDef = ClassDefault
    /\ relationshipsDef = ClassDefault
    /\ variablesDef = ClassDefault
    /\ applicationDef = ClassDefault
    /\ pc = "new"
    /\ call = [op |-> "none"]
    /\ result = Return(None)

\* Config(environment_variables): an exception leaves no instance
Construct ==
    /\ pc = "new"
    /\ LET r1 == IF is_valid_platform /\ ~in_build /\ Truthy(get_value("ROUTES"))
                 THEN decode(get_value("ROUTES")) ELSE Return(routesDef)
           r2 == IF is_valid_platform /\ ~in_build
                    /\ Truthy(get_value("RELATIONSHIPS"))
                 THEN decode(get_value("RELATIONSHIPS"))
                 ELSE Return(relationshipsDef)
           r3 == IF is_valid_platform /\ Truthy(get_value("VARIABLES"))
                 THEN decode(get_value("VARIABLES")) ELSE Return(variablesDef)
           r4 == IF is_valid_platform /\ Truthy(get_value("APPLICATION"))
                 THEN decode(get_value("APPLICATION")) ELSE Return(applicationDef)
           ok1 == r1.ok
           ok2 == ok1 /\ r2.ok
           ok3 == ok2 /\ r3.ok
           ok4 == ok3 /\ r4.ok
       IN  /\ routesDef' = IF ok1 THEN r1.val ELSE routesDef
           /\ relationshipsDef' = IF ok2 THEN r2.val ELSE relationshipsDef
           /\ variablesDef' = IF ok3 THEN r3.val ELSE variablesDef
           /\ applicationDef' = IF ok4 THEN r4.val ELSE applicationDef
           /\ pc' = IF ok4 THEN "ready" ELSE "failed"
           /\ result' = IF ~r1.ok THEN r1
                        ELSE IF ~r2.ok THEN r2
                        ELSE IF ~r3.ok THEN r3
                        ELSE IF ~r4.ok THEN r4
                        ELSE Return(None)
    /\ call' = [op |-> "__init__"]
    /\ UNCHANGED environmentVariables

\* the caller has looked at the outcome of its call and goes on to the next
TakeResult ==
    /\ pc = "ready"
    /\ call.op # "none"
    /\ call' = [op |-> "none"]
    /\ result' = Return(None)
    /\ UNCHANGED <<environmentVariables, tables, pc>>

\* the caller makes one call at a time, on an instance that exists
CanCall == pc = "ready" /\ call.op = "none"

\* a call that reads only
Query(c, r) ==
    /\ CanCall
    /\ call' = c
    /\ result' = r
    /\ UNCHANGED <<environmentVariables, tables, pc>>

Call_is_valid_platform ==
    Query([op |-> "is_valid_platform"], Return(Bool(is_valid_platform)))

Call_in_build == Query([op |-> "in_build"], Return(Bool(in_build)))

Call_credentials ==
    \E relationship \in RelationshipNames, index \in Indexes :
        Query([op |-> "credentials", relationship |-> relationship, index |-> index],
              credentials(relationship, index))

Call_variable ==
    \E name \in VariableNames, default \in Defaults :
        Query([op |-> "variable", name |-> name, default |-> default],
              variable(name, default))

Call_variables == Query([op |-> "variables"], variables)

Call_routes == Query([op |-> "routes"], routes)

Call_get_route ==
    \E route_id \in RouteIdArgs :
        /\ CanCall
        /\ call' = [op |-> "get_route", route_id |-> route_id]
        /\ result' = get_route(route_id)
        /\ routesDef' = get_route_routesDef(route_id)
        /\ UNCHANGED <<environmentVariables, relationshipsDef, variablesDef,
                       applicationDef, pc>>

Call_application == Query([op |-> "application"], application)

Call_on_enterprise == Query([op |-> "on_enterprise"], Return(Bool(on_enterprise)))

Call_on_production == Query([op |-> "on_production"], Return(Bool(on_production)))

Call_getattr ==
    \E config_property \in PropertyNames :
        Query([op |-> "getattr", config_property |-> config_property],
              getattr(config_property))

Call_isset ==
    \E config_property \in PropertyNames :
        Query([op |-> "isset", config_property |-> config_property],
              Return(Bool(isset(config_property))))

Next ==
    \/ Construct
    \/ TakeResult
    \/ Call_is_valid_platform
    \/ Call_in_build
    \/ Call_credentials
    \/ Call_variable
    \/ Call_variables
    \/ Call_routes
    \/ Call_get_route
    \/ Call_application
    \/ Call_on_enterprise
    \/ Call_on_production
    \/ Call_getattr
    \/ Call_isset

Spec == Init /\ [][Next]_vars

-----------------------------------------------------------------------------
(* The caller keeps the mapping it passed to Config(...), and               *)
(* self.environmentVariables is that mapping, not a copy of it: what the    *)
(* caller does to it the instance reads.  The changes are those of the      *)
(* variables that decide the phase.                                         *)

WithoutVar(env, key) == [k \in DOMAIN env \ {key} |-> env[k]]

PhaseKeys == {Prefixed(PhaseNames)[i] : i \in DOMAIN PhaseNames}

\* env[key] = value, between two calls
CallerSets ==
    \E key \in PhaseKeys :
        \E value \in ValuesFor(key) :
            /\ CanCall
            /\ get_value(key[2]) # value
            /\ environmentVariables' = WithVar(environmentVariables, key, value)
            /\ UNCHANGED <<tables, pc, call, result>>

\* del env[key], between two calls
CallerDeletes ==
    \E key \in PhaseKeys \cap DOMAIN environmentVariables :
        /\ CanCall
        /\ environmentVariables' = WithoutVar(environmentVariables, key)
        /\ UNCHANGED <<tables, pc, call, result>>

NextCaller ==
    \/ Next
    \/ CallerSets
    \/ CallerDeletes

SpecCaller == Init /\ [][NextCaller]_vars

-----------------------------------------------------------------------------
(* What the claims speak of, read off the mapping itself.                  *)

EnvHas(name) == <<"PLATFORM_", name>> \in DOMAIN environmentVariables
EnvIs(name, s) ==
    EnvHas(name) /\ environmentVariables[<<"PLATFORM_", name>>] = Str(s)
\* the value of a variable, None standing for the absent-marker
EnvOrNone(name) ==
    IF EnvHas(name) THEN environmentVariables[<<"PLATFORM_", name>>] ELSE None

NoApplicationName == ~EnvHas("APPLICATION_NAME") \/ EnvIs("APPLICATION_NAME", "")
ValidPlatform == ~NoApplicationName
BuildPhase == ValidPlatform /\ ~EnvHas("ENVIRONMENT")
Runtime == ValidPlatform /\ EnvHas("ENVIRONMENT")

\* the variable holds bytes that are not base64, or not base64 of JSON
Malformed(name) ==
    /\ EnvHas(name)
    /\ environmentVariables[<<"PLATFORM_", name>>].t = "bytes"
    /\ \/ ~environmentVariables[<<"PLATFORM_", name>>].b64
       \/ ~environmentVariables[<<"PLATFORM_", name>>].json

PlatformUnavailable(r) ==
    ~r.ok /\ r.exc = "RuntimeError" /\ r.msg = "not running on Platform.sh"

\* routes and relationships raise RuntimeError, a property read ValueError
BuildPhaseError(r) ==
    /\ ~r.ok
    /\ \/ r.exc = "RuntimeError" /\ r.msg = "not available during the build phase"
       \/ r.exc = "ValueError" /\ r.msg = "not available during build time"

RuntimeOnlyProperties == {"branch", "environment", "documentRoot", "smtpHost"}

\* C1: when APPLICATION_NAME is missing or empty, is_valid_platform() is
\* False; routes, credentials(r, i), variables(), application() and every
\* property read raise the not-on-platform error; variable(name, default)
\* returns default, and isset(name), on_enterprise() and on_production()
\* return False.
C1_NotOnPlatform ==
    (pc = "ready" /\ NoApplicationName) =>
        /\ call.op = "is_valid_platform" => result = Return(Bool(FALSE))
        /\ call.op \in {"routes", "credentials", "variables", "application", "getattr"}
              => PlatformUnavailable(result)
        /\ call.op = "variable" => result = Return(call.default)
        /\ call.op \in {"isset", "on_enterprise", "on_production"}
              => result = Return(Bool(FALSE))

\* C1's case: APPLICATION_NAME is the empty string and a property read fails
C1_Witness ==
    /\ pc = "ready"
    /\ EnvIs("APPLICATION_NAME", "")
    /\ call.op = "getattr"
    /\ PlatformUnavailable(result)

\* C2: on a valid platform without ENVIRONMENT, in_build() is True, and
\* routes, get_route(id), credentials(r, i) and a read of branch,
\* environment, documentRoot or smtpHost raise the build-phase error, for
\* every argument and whatever ROUTES and RELATIONSHIPS hold.
C2_BuildPhase ==
    (pc = "ready" /\ BuildPhase) =>
        /\ call.op = "in_build" => result = Return(Bool(TRUE))
        /\ call.op \in {"routes", "get_route", "credentials"}
              => BuildPhaseError(result) /\ result.exc = "RuntimeError"
        /\ (call.op = "getattr" /\ call.config_property \in RuntimeOnlyProperties)
              => BuildPhaseError(result) /\ result.exc = "ValueError"

\* C2's case: ROUTES is in the mapping, the phase is build, and get_route fails
C2_Witness ==
    /\ pc = "ready"
    /\ BuildPhase
    /\ EnvHas("ROUTES")
    /\ call.op = "get_route"
    /\ BuildPhaseError(result)

\* the structured variables that construction decodes in the phase at hand
DecodedAtConstruction ==
    IF Runtime THEN {"ROUTES", "RELATIONSHIPS", "VARIABLES", "APPLICATION"}
    ELSE IF BuildPhase THEN {"VARIABLES", "APPLICATION"}
    ELSE {}

\* C3: when a variable that construction decodes is not base64, or not
\* base64 of JSON, construction fails and leaves no instance.
C3_MalformedAbortsConstruction ==
    (pc # "new" /\ \E name \in DecodedAtConstruction : Malformed(name))
        => pc = "failed" /\ ~result.ok

RelationshipIndexError(r) ==
    ~r.ok /\ r.exc = "ValueError" /\ r.msg = "No index defined for relationship"

\* C4: at runtime, for a relationship r of the table, credentials(r, i)
\* returns the i-th credential set of r when 0 <= i < the length of r's
\* sequence and raises the index error otherwise.
C4_IndexWithinOwnSequence ==
    (/\ pc = "ready"
     /\ Runtime
     /\ call.op = "credentials"
     /\ relationshipsDef.t = "dict"
     /\ call.relationship \in DictKeys(relationshipsDef)) =>
        LET own == DictGet(relationshipsDef, call.relationship).v
        IN  IF 0 <= call.index /\ call.index < Len(own)
            THEN result = Return(own[call.index + 1])
            ELSE RelationshipIndexError(result)

\* the keys of a table, a table that was never decoded counting as empty
KeysOf(table) == IF table.t = "dict" THEN DictKeys(table) ELSE {}

\* C5: at runtime, credentials(r, i) raises the no-relationship error for
\* every r that is no key of the relationship table, also when
\* RELATIONSHIPS was not supplied and the table never decoded.
C5_MissingRelationship ==
    (/\ pc = "ready"
     /\ Runtime
     /\ ~Malformed("RELATIONSHIPS")
     /\ call.op = "credentials"
     /\ call.relationship \notin KeysOf(relationshipsDef)) =>
        (~result.ok /\ result.exc = "ValueError"
            /\ result.msg = "No relationship defined")

\* C6: variable(name, default) never fails: it returns default off the
\* platform, and on it the entry of the variable table for name, or default
\* when there is none, also when VARIABLES is absent and no table decoded.
C6_VariableNeverFails ==
    (/\ pc = "ready"
     /\ ~Malformed("VARIABLES")
     /\ call.op = "variable") =>
        result = Return(IF ValidPlatform /\ call.name \in KeysOf(variablesDef)
                        THEN DictGet(variablesDef, call.name)
                        ELSE call.default)

\* the catalogues as the claim and the docstring of the class give them
BothPhaseProperties ==
    [project |-> "PROJECT", applicationName |-> "APPLICATION_NAME",
     treeId |-> "TREE_ID", appDir |-> "APP_DIR", entropy |-> "PROJECT_ENTROPY"]
RuntimeProperties ==
    [branch |-> "BRANCH", environment |-> "ENVIRONMENT",
     documentRoot |-> "DOCUMENT_ROOT", smtpHost |-> "SMTP_HOST"]

\* C7: on a valid platform, a read of project, applicationName, treeId,
\* appDir or entropy returns the value of its variable, or the absent-marker,
\* in both phases; at runtime so does a read of branch, environment,
\* documentRoot or smtpHost; any other name raises the unknown-property error.
C7_PropertyReads ==
    (pc = "ready" /\ ValidPlatform /\ call.op = "getattr") =>
        IF call.config_property \in DOMAIN BothPhaseProperties
        THEN result = Return(EnvOrNone(BothPhaseProperties[call.config_property]))
        ELSE IF call.config_property \in DOMAIN RuntimeProperties
        THEN Runtime =>
                result = Return(EnvOrNone(RuntimeProperties[call.config_property]))
        ELSE (~result.ok /\ result.exc = "ValueError"
                /\ result.msg = "No such variable defined")

\* the positions of the routes of the table that have the id
RoutesWithId(route_id) ==
    IF routesDef.t # "dict" THEN {}
    ELSE {i \in DOMAIN routesDef.v : DictGet(routesDef.v[i][2], "id") = route_id}

\* C8: at runtime, get_route(id) returns the first route of the table, in
\* insertion order, whose id is id, with 'url' set to the key it is stored
\* under; with no such route, also when the table is empty or was never
\* decoded, it raises the no-such-route error.
C8_GetRoute ==
    (/\ pc = "ready"
     /\ Runtime
     /\ ~Malformed("ROUTES")
     /\ call.op = "get_route") =>
        LET hits == RoutesWithId(call.route_id)
        IN  IF hits = {}
            THEN (~result.ok /\ result.exc = "ValueError"
                    /\ result.msg = "No such route id found")
            ELSE /\ result.ok
                 /\ result.val = routesDef.v[Min(hits)][2]
                 /\ DictGet(result.val, "id") = call.route_id
                 /\ DictGet(result.val, "url") = Str(routesDef.v[Min(hits)][1])

C10_NotProductionInBuild ==
    (pc = "ready" /\ BuildPhase /\ call.op = "on_production") =>
        result = Return(Bool(FALSE))

\* the variable behind a documented property readable in the phase at hand,
\* None for any other name
BackingVariable(name) ==
    IF ValidPlatform /\ name \in DOMAIN BothPhaseProperties
    THEN Str(BothPhaseProperties[name])
    ELSE IF Runtime /\ name \in DOMAIN RuntimeProperties
    THEN Str(RuntimeProperties[name])
    ELSE None

\* C11: isset(name) never fails, and is True exactly when name is a
\* catalogued property readable in the phase at hand whose variable is in
\* the mapping; False for an unknown name, a runtime-only name in build, off
\* the platform, or with the variable unset.
C11_IssetMeansSet ==
    (pc = "ready" /\ call.op = "isset") =>
        result = Return(Bool(
            /\ BackingVariable(call.config_property) # None
            /\ EnvHas(BackingVariable(call.config_property).v)))

\* C12: the instance holds its own snapshot: whatever the caller does to
\* the mapping after construction, is_valid_platform() and in_build() keep
\* the values they had at construction, and so agree with the tables that
\* were decoded.
C12_PhaseFixedAtConstruction ==
    [][pc = "ready" =>
          /\ is_valid_platform' = is_valid_platform
          /\ in_build' = in_build]_vars

\* C13: every query is a pure read: no call on a constructed instance
\* changes the decoded tables, so routes returns the same content before and
\* after any get_route call.
C13_QueriesArePureReads ==
    [][pc = "ready" =>
          /\ UNCHANGED tables
          /\ routes' = routes]_vars

====
